---------------------------- MODULE Spec2Model ----------------------------
(***************************************************************************)
(* Model of the workflow engine of mcp-server-multagente-sap:              *)
(*   - DatabaseService (src/src/database/service.ts): the tables           *)
(*     context_stack, todos, tasks and bugs, and the queries on them;      *)
(*   - ContextManager (src/unnamed/part_003): the resumption-context        *)
(*     stack and its per-project in-memory cache;                          *)
(*   - CommandProcessor (src/src/commands/processor.ts): the handlers       *)
(*     /criar, /executar, /confirmar, /erro and /continuar.                 *)
(*                                                                         *)
(* Abstractions.  Row ids are the serial numbers the store hands out       *)
(* (1, 2, ...); 0 stands for undefined/null.  saved_at is the logical      *)
(* insertion time (the serial), resumed_at is "set"/"not set".  Texts      *)
(* (titles, next_action, session_data) carry no control flow and are left  *)
(* out, and so are the columns the modelled code writes but never reads    *)
(* (current_task_index, started_at, completed_at, confirmed_by, ...); the  *)
(* evaluators are opaque and contribute only which keys of the consensus   *)
(* are non-empty.  Store calls succeed, except in the actions named        *)
(* ...StoreFails.  A command that lacks a required argument returns before *)
(* it reads anything: it is a disabled step.  Every other refusal is a     *)
(* step that records its result in `last`.                                 *)
(***************************************************************************)
EXTENDS Integers, Sequences, FiniteSets, TLC

VARIABLES
    context_stack,   \* table context_stack: a set of rows
    nextContextId,   \* serial of context_stack.id
    contextStack,    \* ContextManager.contextStack: project -> cached rows
    todos,           \* table todos, in creation order (id = index)
    tasks,           \* table tasks, in creation order (id = index = serial)
    bugs,            \* number of rows of table bugs
    last,            \* the last operation issued and what it returned
    run,             \* the analysis the AgentOrchestrator is running
    calls,           \* the saveContext calls in flight, per caller
    calc             \* a function of the code applied on its own: its
                     \* arguments and, once it has returned, its value

vars == <<context_stack, nextContextId, contextStack, todos, tasks, bugs, last,
          run, calls, calc>>

---------------------------------------------------------------------------
(* Bounds of the model *)

\* contexts ever inserted into context_stack
MaxContexts == 3
\* contexts the commands ever save (one per /criar, one per /confirmar)
MaxCheckpoints == 4
\* todos ever created
MaxTodos == 2
\* error reports ever filed
MaxErrors == 1

Projects == {"p1", "p2"}

\* getContextHistory(projectId, limit = 10)
DefaultHistoryLimit == 10

\* the values an updateCurrentContext payload writes into notes
Notes == {1}

---------------------------------------------------------------------------
(* Rows *)

\* the null a lookup returns when no row matches
NoContext ==
    [id |-> 0, project_id |-> "", todo_id |-> 0, task_id |-> 0,
     is_active |-> FALSE, stack_depth |-> 0, parent_context_id |-> 0,
     saved_at |-> 0, resumed_at |-> FALSE, notes |-> 0]

\* ContextData as the callers build it: the fields that are not given
\* are undefined (0)
ContextData(p, todo, task, depth, parent) ==
    [project_id |-> p, todo_id |-> todo, task_id |-> task,
     stack_depth |-> depth, parent_context_id |-> parent]

\* AgentOrchestrator.agents, in insertion order
Registry == <<"architect", "developer", "dba", "qa", "business", "po">>

\* the orchestrator when no analysis is running.  mode is "all" or
\* "specific"; selected lists the evaluators of the run; started lists the
\* evaluators whose analyze has been invoked, in invocation order; settled
\* maps an evaluator that has finished to how it ended and to its entry, and
\* firstSettled is the one that finished first; responses is the array the run returns; pc
\* is where the orchestrator stands ("idle", "waiting" at an await, "done")
NoRun ==
    [mode |-> "", selected |-> <<>>, started |-> <<>>, settled |-> <<>>,
     firstSettled |-> "", responses |-> <<>>, pc |-> "idle"]

\* no function applied.  pc is "idle", "called" (the arguments are set) or
\* "returned" (the value is set); consensus is the set of keys of
\* analysis.consensus with a non-empty text; tasks is the value of
\* generateTasksFromAnalysis; suggestions lists response.suggestions of
\* each response given to generateRecommendations and recommendations is
\* its value; factors is the argument of calculateConfidence and confidence
\* its value, in hundredths; agent is the evaluator whose analyze is
\* called, analysis what its perform...Analysis does (the complexity and
\* riskLevel it finds, whether the context has the data the evaluator
\* rates, whether it throws) and response the value of analyze; a call
\* that throws ends with pc "raised"; body is the text an evaluator hands
\* to formatResponse, text the response text formatResponse builds from it
\* and clean the entry generateConsensus stores for it, all three as
\* sequences of UTF-16 code units; text1 and text2 are the arguments of
\* checkAlignment, as sequences of words, and aligned its value
NoCalc ==
    [fn |-> "", pc |-> "idle", consensus |-> {}, tasks |-> <<>>,
     suggestions |-> <<>>, recommendations |-> <<>>,
     factors |-> [complexity |-> 0, familiarity |-> 0, riskLevel |-> 0,
                  dataQuality |-> 0],
     confidence |-> 0,
     agent |-> "", analysis |-> [complexity |-> 0, riskLevel |-> 0,
                                 hasData |-> FALSE, fails |-> FALSE],
     response |-> [agent |-> "", response |-> "", confidence |-> 0,
                   suggestions |-> {}],
     body |-> <<>>, text |-> <<>>, clean |-> <<>>,
     text1 |-> <<>>, text2 |-> <<>>, aligned |-> FALSE]

\* the concurrent callers of saveContext
Callers == {"c1", "c2"}

\* a caller with no call in flight.  pc is "idle", "deactivated" (the
\* update of is_active has run) or "inserted" (the insert has returned row)
NoCall == [pc |-> "idle", project |-> "", row |-> 0]

\* what `last` records of a call: the operation, its project and argument,
\* whether it succeeded, which message it reported and the context it
\* returned; pushes counts the pushContext calls on the project that ended
\* with this call with nothing in between (0, 1, or 2 for two or more);
\* force is the override flag of an /executar that started a task (a
\* refused /executar records FALSE); pending and status are what the error
\* text of a refusal lists (`Dependências: ...`, `Status atual: ...`);
\* thrown tells that the call ended by throwing to its caller instead of
\* returning (no modelled call does)
Result(op, p, arg, ok, msg, ctx) ==
    [op |-> op, project |-> p, arg |-> arg, success |-> ok,
     message |-> msg, context |-> ctx, pushes |-> 0, force |-> FALSE,
     pending |-> {}, status |-> "", thrown |-> FALSE]

---------------------------------------------------------------------------
(* DatabaseService: context_stack *)

\* select where id = ...: the row with this id, or null
dbGetContext(tbl, id) ==
    IF \E c \in tbl : c.id = id
    THEN CHOOSE c \in tbl : c.id = id
    ELSE NoContext

\* the project's active rows, the most recently saved first, limit 1
dbGetActiveContext(p) ==
    LET act == {c \in context_stack : c.project_id = p /\ c.is_active}
    IN  IF act = {} THEN NoContext
        ELSE CHOOSE c \in act : \A d \in act : d.saved_at <= c.saved_at

\* insert {...context, is_active: true}: the table with the new row
dbInsertContext(tbl, data, id) ==
    tbl \cup
      {[id |-> id, project_id |-> data.project_id, todo_id |-> data.todo_id,
        task_id |-> data.task_id, is_active |-> TRUE,
        stack_depth |-> data.stack_depth,
        parent_context_id |-> data.parent_context_id,
        saved_at |-> id, resumed_at |-> FALSE, notes |-> 0]}

\* a mutant of dbSaveContext: the insert without the deactivation
dbSaveContextInsertOnly(tbl, data, id) == dbInsertContext(tbl, data, id)

\* update is_active = false where project_id = ..., then insert the new
\* row with is_active = true
dbSaveContext(tbl, data, id) ==
    {[c EXCEPT !.is_active =
          IF c.project_id = data.project_id THEN FALSE ELSE c.is_active]
       : c \in tbl}
    \cup
      {[id |-> id, project_id |-> data.project_id, todo_id |-> data.todo_id,
        task_id |-> data.task_id, is_active |-> TRUE,
        stack_depth |-> data.stack_depth,
        parent_context_id |-> data.parent_context_id,
        saved_at |-> id, resumed_at |-> FALSE, notes |-> 0]}

\* the row the insert of dbSaveContext returns
dbSavedRow(tbl, id) == CHOOSE c \in tbl : c.id = id

\* update(updates) where id = ...: the table after the update; updates is
\* a record of the columns to overwrite
dbUpdateContext(tbl, id, updates) ==
    {IF c.id = id
     THEN [k \in DOMAIN c |-> IF k \in DOMAIN updates THEN updates[k] ELSE c[k]]
     ELSE c : c \in tbl}

\* a mutant of dbDeleteOldContexts: is_active is not looked at
dbDeleteOldContextsAnyFlag(tbl, p, cutoff) ==
    {c \in tbl : ~(c.project_id = p /\ c.saved_at < cutoff)}

\* delete where project_id = p and is_active = false and saved_at < cutoff
dbDeleteOldContexts(tbl, p, cutoff) ==
    {c \in tbl : ~(c.project_id = p /\ ~c.is_active /\ c.saved_at < cutoff)}

RECURSIVE SortDesc(_)
\* a set of rows as a sequence ordered by saved_at, the latest first
SortDesc(S) ==
    IF S = {} THEN <<>>
    ELSE LET c == CHOOSE x \in S : \A y \in S : y.saved_at <= x.saved_at
         IN  <<c>> \o SortDesc(S \ {c})

\* select where project_id = p order by saved_at desc limit n
dbGetContextHistory(p, n) ==
    LET all == SortDesc({c \in context_stack : c.project_id = p})
    IN  IF Len(all) <= n THEN all ELSE SubSeq(all, 1, n)

---------------------------------------------------------------------------
(* ContextManager *)

\* the least element of a non-empty set of indices
FirstIndex(S) == CHOOSE i \in S : \A j \in S : i <= j

\* updateContextCache: replace the cached row of the same id, else append
updateContextCache(cached, ctx) ==
    LET same == {i \in 1..Len(cached) : cached[i].id = ctx.id}
    IN  IF same # {}
        THEN [cached EXCEPT ![FirstIndex(same)] = ctx]
        ELSE Append(cached, ctx)

\* getActiveContext: the first cached row flagged active if there is one,
\* else the store's active row, which is then cached.  Yields the row
\* returned and the project's cache afterwards.
activeContextOf(p) ==
    LET cached == contextStack[p]
        active == {i \in 1..Len(cached) : cached[i].is_active}
        fromDb == dbGetActiveContext(p)
    IN  IF active # {}
        THEN [context |-> cached[FirstIndex(active)], cache |-> cached]
        ELSE IF fromDb.id # 0
             THEN [context |-> fromDb, cache |-> updateContextCache(cached, fromDb)]
             ELSE [context |-> NoContext, cache |-> cached]

Init ==
    /\ context_stack = {}
    /\ nextContextId = 1
    /\ contextStack = [p \in Projects |-> <<>>]
    /\ todos = <<>>
    /\ tasks = <<>>
    /\ bugs = 0
    /\ last = Result("init", "", 0, TRUE, "", NoContext)
    /\ run = NoRun
    /\ calls = [c \in Callers |-> NoCall]
    /\ calc = NoCalc

\* saveContext(data): persist as the active context and append the saved
\* row to the project's cache
saveContextEffect(cache, data) ==
    LET tbl == dbSaveContext(context_stack, data, nextContextId)
        row == dbSavedRow(tbl, nextContextId)
    IN  [table |-> tbl, row |-> row,
         cache |-> [cache EXCEPT ![data.project_id] = Append(@, row)]]

saveContext(p) ==
    /\ nextContextId <= MaxContexts
    /\ LET e == saveContextEffect(contextStack, ContextData(p, 0, 0, 0, 0))
       IN  /\ context_stack' = e.table
           /\ contextStack' = e.cache
           /\ last' = Result("saveContext", p, 0, TRUE, "", e.row)
    /\ nextContextId' = nextContextId + 1
    /\ UNCHANGED <<todos, tasks, bugs, run, calls, calc>>

getActiveContext(p) ==
    /\ LET r == activeContextOf(p)
       IN  /\ contextStack' = [contextStack EXCEPT ![p] = r.cache]
           /\ last' = Result("getActiveContext", p, 0, r.context.id # 0, "", r.context)
    /\ UNCHANGED <<context_stack, nextContextId, todos, tasks, bugs, run, calls, calc>>

pushContext(p) ==
    /\ nextContextId <= MaxContexts
    /\ LET r == activeContextOf(p)
           cur == r.context
           stackDepth == IF cur.id # 0 THEN cur.stack_depth + 1 ELSE 0
           cache1 == [contextStack EXCEPT ![p] = r.cache]
           e == saveContextEffect(cache1, ContextData(p, 0, 0, stackDepth, cur.id))
       IN  /\ context_stack' = e.table
           /\ contextStack' = e.cache
           /\ last' = [Result("pushContext", p, 0, TRUE, "", e.row) EXCEPT
                         !.pushes = IF last.op = "pushContext" /\ last.project = p
                                    THEN 2 ELSE 1]
    /\ nextContextId' = nextContextId + 1
    /\ UNCHANGED <<todos, tasks, bugs, run, calls, calc>>

\* popContext: deactivate the current context, reactivate its parent and
\* return the parent as it was read (before the reactivating update)
popContext(p) ==
    /\ LET r == activeContextOf(p)
           cur == r.context
           tbl1 == dbUpdateContext(context_stack, cur.id, [is_active |-> FALSE])
           parent == dbGetContext(tbl1, cur.parent_context_id)
       IN  IF cur.id = 0 \/ cur.parent_context_id = 0
           THEN /\ context_stack' = context_stack
                /\ contextStack' = [contextStack EXCEPT ![p] = r.cache]
                /\ last' = Result("popContext", p, 0, FALSE, "no parent", NoContext)
           ELSE IF parent.id # 0
           THEN /\ context_stack' =
                      dbUpdateContext(tbl1, parent.id,
                                      [is_active |-> TRUE, resumed_at |-> TRUE])
                /\ contextStack' =
                      [contextStack EXCEPT ![p] = updateContextCache(r.cache, parent)]
                /\ last' = Result("popContext", p, 0, TRUE, "", parent)
           ELSE /\ context_stack' = tbl1
                /\ contextStack' = [contextStack EXCEPT ![p] = r.cache]
                /\ last' = Result("popContext", p, 0, FALSE, "parent missing", NoContext)
    /\ UNCHANGED <<nextContextId, todos, tasks, bugs, run, calls, calc>>

\* updateCurrentContext(updates): the payload sets notes
updateCurrentContext(p, n) ==
    /\ LET r == activeContextOf(p)
           cur == r.context
           tbl1 == dbUpdateContext(context_stack, cur.id, [notes |-> n])
           updated == dbGetContext(tbl1, cur.id)
       IN  IF cur.id = 0
           THEN /\ context_stack' = context_stack
                /\ contextStack' = [contextStack EXCEPT ![p] = r.cache]
                /\ last' = Result("updateCurrentContext", p, n, FALSE, "none active", NoContext)
           ELSE /\ context_stack' = tbl1
                /\ contextStack' =
                      [contextStack EXCEPT ![p] = updateContextCache(r.cache, updated)]
                /\ last' = Result("updateCurrentContext", p, n, TRUE, "", updated)
    /\ UNCHANGED <<nextContextId, todos, tasks, bugs, run, calls, calc>>

\* getContextHistory(limit): the cache of the project becomes the rows read
getContextHistory(p, limit) ==
    /\ contextStack' = [contextStack EXCEPT ![p] = dbGetContextHistory(p, limit)]
    /\ last' = Result("getContextHistory", p, limit, TRUE, "", NoContext)
    /\ UNCHANGED <<context_stack, nextContextId, todos, tasks, bugs, run, calls, calc>>

\* clearInactiveContexts(olderThanDays): cutoff = now - olderThanDays; the
\* rows saved so far have saved_at in 1 .. nextContextId - 1
clearInactiveContexts(p, cutoff) ==
    /\ context_stack' = dbDeleteOldContexts(context_stack, p, cutoff)
    /\ contextStack' = [contextStack EXCEPT ![p] = <<>>]
    /\ last' = Result("clearInactiveContexts", p,
                      Cardinality(context_stack) - Cardinality(context_stack'),
                      TRUE, "", NoContext)
    /\ UNCHANGED <<nextContextId, todos, tasks, bugs, run, calls, calc>>

\* clearCache(projectId)
clearCache(p) ==
    /\ contextStack' = [contextStack EXCEPT ![p] = <<>>]
    /\ last' = Result("clearCache", p, 0, TRUE, "", NoContext)
    /\ UNCHANGED <<context_stack, nextContextId, todos, tasks, bugs, run, calls, calc>>

\* clearCache(): every project
clearCacheAll ==
    /\ contextStack' = [p \in Projects |-> <<>>]
    /\ last' = Result("clearCache", "", 0, TRUE, "", NoContext)
    /\ UNCHANGED <<context_stack, nextContextId, todos, tasks, bugs, run, calls, calc>>

\* the operations of ContextManager, issued one at a time
NextCtx ==
    \/ \E p \in Projects :
          \/ saveContext(p)
          \/ getActiveContext(p)
          \/ pushContext(p)
          \/ popContext(p)
          \/ \E n \in Notes : updateCurrentContext(p, n)
          \/ getContextHistory(p, DefaultHistoryLimit)
          \/ \E cutoff \in 1..nextContextId : clearInactiveContexts(p, cutoff)
          \/ clearCache(p)
    \/ clearCacheAll

SpecCtx == Init /\ [][NextCtx]_vars

---------------------------------------------------------------------------
(* DatabaseService: todos and tasks *)

\* the null a task lookup returns
NoTask ==
    [id |-> 0, todo_id |-> 0, sequence_number |-> 0, status |-> "",
     dependencies |-> {}, error_count |-> 0, corrections_applied |-> <<>>]

\* a row of tasks with its id (the index in the table)
TaskRow(tbl, id) ==
    [id |-> id, todo_id |-> tbl[id].todo_id,
     sequence_number |-> tbl[id].sequence_number, status |-> tbl[id].status,
     dependencies |-> tbl[id].dependencies,
     error_count |-> tbl[id].error_count,
     corrections_applied |-> tbl[id].corrections_applied]

\* getTask(id): select where id = ...
dbGetTask(tbl, id) ==
    IF id \in 1..Len(tbl) THEN TaskRow(tbl, id) ELSE NoTask

\* listTasks(todoId): the rows of the todo (ordered by sequence_number)
dbListTasks(tbl, todoId) ==
    {TaskRow(tbl, i) : i \in {j \in 1..Len(tbl) : tbl[j].todo_id = todoId}}

\* getActiveTodo(projectId): the latest created todo of the project with
\* status in_progress, 0 when none
dbGetActiveTodo(p) ==
    LET act == {i \in 1..Len(todos) :
                  todos[i].project_id = p /\ todos[i].status = "in_progress"}
    IN  IF act = {} THEN 0 ELSE CHOOSE i \in act : \A j \in act : j <= i

\* getNextTask(todoId, currentSequence): the pending row of the todo with
\* the least sequence_number above currentSequence
dbGetNextTask(tbl, todoId, currentSequence) ==
    LET cand == {t \in dbListTasks(tbl, todoId) :
                   t.status = "pending" /\ t.sequence_number > currentSequence}
    IN  IF cand = {} THEN NoTask
        ELSE CHOOSE t \in cand :
               \A u \in cand : t.sequence_number <= u.sequence_number

---------------------------------------------------------------------------
(* CommandProcessor *)

\* Math.round(completed / total * 100)
ProgressPercentage(completed, total) == (200 * completed + total) \div (2 * total)

NewTask(todoId, seq, deps) ==
    [todo_id |-> todoId, sequence_number |-> seq, status |-> "pending",
     dependencies |-> deps, error_count |-> 0, corrections_applied |-> <<>>]

\* generateTasksFromAnalysis: the planning task, then the implementation
\* task if consensus.developer is non-empty, then the test task if
\* consensus.qa is non-empty
generateTasksFromAnalysis(todoId, developer, qa) ==
    <<NewTask(todoId, 1, {})>>
    \o (IF developer THEN <<NewTask(todoId, 2, {1})>> ELSE <<>>)
    \o (IF qa THEN <<NewTask(todoId, 3, {2})>> ELSE <<>>)

\* checkTaskDependencies(task): the entries of task.dependencies for which
\* getTask(entry) is missing or not completed
checkTaskDependencies(tbl, task) ==
    {d \in task.dependencies :
        dbGetTask(tbl, d).id = 0 \/ dbGetTask(tbl, d).status # "completed"}

\* analyzeWithAllAgents(request).consensus: which keys have a non-empty
\* entry.  Every registered evaluator contributes an entry (its own
\* response, or the error text if it throws), developer and qa included.
analyzeWithAllAgents == [developer |-> TRUE, qa |-> TRUE]

\* /criar type description (a call without type or description returns
\* at once and is not a step)
handleCreate(p) ==
    /\ Len(todos) < MaxTodos
    /\ nextContextId <= MaxCheckpoints
    /\ LET todoId == Len(todos) + 1
           consensus == analyzeWithAllAgents
           new == generateTasksFromAnalysis(todoId, consensus.developer,
                                            consensus.qa)
           e == saveContextEffect(contextStack,
                                  ContextData(p, todoId, Len(tasks) + 1, 0, 0))
       IN  /\ todos' = Append(todos,
                 [project_id |-> p, status |-> "pending",
                  progress_percentage |-> 0])
           /\ tasks' = tasks \o new
           /\ context_stack' = e.table
           /\ contextStack' = e.cache
           /\ last' = Result("handleCreate", p, Len(new), TRUE, "", NoContext)
    /\ nextContextId' = nextContextId + 1
    /\ UNCHANGED <<bugs, run, calls, calc>>

\* a mutant of handleExecute: the dependencies are checked even with force
handleExecuteForceIgnored(p, taskNumber, force) ==
    LET activeTodo == dbGetActiveTodo(p)
        list == dbListTasks(tasks, activeTodo)
        found == {t \in list : t.sequence_number = taskNumber}
        targetTask == CHOOSE t \in found : TRUE
        pendingDependencies == checkTaskDependencies(tasks, targetTask)
        completedTasks == Cardinality({t \in list : t.status = "completed"})
        Fail(msg, pending) ==
            /\ last' = [Result("handleExecute", p, taskNumber, FALSE, msg, NoContext)
                          EXCEPT !.pending = pending]
            /\ UNCHANGED <<context_stack, nextContextId, contextStack, todos, tasks, bugs, run, calls, calc>>
    IN  IF activeTodo = 0 THEN Fail("no active todo", {})
        ELSE IF found = {} THEN Fail("task not found", {})
        ELSE IF targetTask.dependencies # {} /\ pendingDependencies # {}
        THEN Fail("pending dependencies", pendingDependencies)
        ELSE /\ tasks' = [tasks EXCEPT ![targetTask.id].status = "in_progress"]
             /\ todos' = [todos EXCEPT
                   ![activeTodo].progress_percentage =
                       ProgressPercentage(completedTasks, Cardinality(list))]
             /\ last' = [Result("handleExecute", p, taskNumber, TRUE, "", NoContext)
                           EXCEPT !.force = force]
             /\ UNCHANGED <<context_stack, nextContextId, contextStack, bugs, run, calls, calc>>

\* /executar taskNumber [force] (a call without taskNumber returns at once
\* and is not a step)
handleExecute(p, taskNumber, force) ==
    LET activeTodo == dbGetActiveTodo(p)
        list == dbListTasks(tasks, activeTodo)
        found == {t \in list : t.sequence_number = taskNumber}
        targetTask == CHOOSE t \in found : TRUE
        pendingDependencies == checkTaskDependencies(tasks, targetTask)
        completedTasks == Cardinality({t \in list : t.status = "completed"})
        Fail(msg, pending) ==
            /\ last' = [Result("handleExecute", p, taskNumber, FALSE, msg, NoContext)
                          EXCEPT !.pending = pending]
            /\ UNCHANGED <<context_stack, nextContextId, contextStack, todos, tasks, bugs, run, calls, calc>>
    IN  IF activeTodo = 0 THEN Fail("no active todo", {})
        ELSE IF found = {} THEN Fail("task not found", {})
        ELSE IF ~force /\ targetTask.dependencies # {} /\ pendingDependencies # {}
        THEN Fail("pending dependencies", pendingDependencies)
        ELSE \* executeTask marks the task in_progress; the progress is
             \* computed from the list read before that
             /\ tasks' = [tasks EXCEPT ![targetTask.id].status = "in_progress"]
             /\ todos' = [todos EXCEPT
                   ![activeTodo].progress_percentage =
                       ProgressPercentage(completedTasks, Cardinality(list))]
             /\ last' = [Result("handleExecute", p, taskNumber, TRUE, "", NoContext)
                           EXCEPT !.force = force]
             /\ UNCHANGED <<context_stack, nextContextId, contextStack, bugs, run, calls, calc>>

\* a mutant of handleConfirm: a refusal for a task that is not in
\* progress puts the task back to pending
handleConfirmRefusalResetsTask(p) ==
    LET r == activeContextOf(p)
        activeContext == r.context
        cache1 == [contextStack EXCEPT ![p] = r.cache]
        task == dbGetTask(tasks, activeContext.task_id)
        tasks1 == [tasks EXCEPT ![task.id].status = "completed"]
        nextTask == dbGetNextTask(tasks1, task.todo_id, task.sequence_number)
        allTasks == dbListTasks(tasks1, task.todo_id)
        e == saveContextEffect(cache1, ContextData(p, task.todo_id, nextTask.id, 0, 0))
        Fail(msg, status) ==
            /\ contextStack' = cache1
            /\ last' = [Result("handleConfirm", p, 0, FALSE, msg, NoContext)
                          EXCEPT !.status = status]
            /\ UNCHANGED <<context_stack, nextContextId, todos, tasks, bugs, run, calls, calc>>
    IN  IF activeContext.id = 0 \/ activeContext.task_id = 0
        THEN Fail("no active task", "")
        ELSE IF task.id = 0 THEN Fail("task not found", "")
        ELSE IF task.status # "in_progress"
        THEN /\ contextStack' = cache1
             /\ tasks' = [tasks EXCEPT ![task.id].status = "pending"]
             /\ last' = [Result("handleConfirm", p, 0, FALSE,
                                 "task not in progress", NoContext)
                           EXCEPT !.status = task.status]
             /\ UNCHANGED <<context_stack, nextContextId, todos, bugs, run, calls, calc>>
        ELSE /\ nextContextId <= MaxCheckpoints
             /\ tasks' = tasks1
             /\ todos' =
                  IF nextTask.id = 0 /\ \A t \in allTasks : t.status = "completed"
                  THEN [todos EXCEPT ![task.todo_id].status = "completed",
                                     ![task.todo_id].progress_percentage = 100]
                  ELSE todos
             /\ context_stack' = e.table
             /\ contextStack' = e.cache
             /\ nextContextId' = nextContextId + 1
             /\ last' = Result("handleConfirm", p, task.id, TRUE, "", NoContext)
             /\ UNCHANGED <<bugs, run, calls, calc>>

\* /confirmar
handleConfirm(p) ==
    LET r == activeContextOf(p)
        activeContext == r.context
        cache1 == [contextStack EXCEPT ![p] = r.cache]
        task == dbGetTask(tasks, activeContext.task_id)
        tasks1 == [tasks EXCEPT ![task.id].status = "completed"]
        nextTask == dbGetNextTask(tasks1, task.todo_id, task.sequence_number)
        allTasks == dbListTasks(tasks1, task.todo_id)
        e == saveContextEffect(cache1, ContextData(p, task.todo_id, nextTask.id, 0, 0))
        Fail(msg, status) ==
            /\ contextStack' = cache1
            /\ last' = [Result("handleConfirm", p, 0, FALSE, msg, NoContext)
                          EXCEPT !.status = status]
            /\ UNCHANGED <<context_stack, nextContextId, todos, tasks, bugs, run, calls, calc>>
    IN  IF activeContext.id = 0 \/ activeContext.task_id = 0
        THEN Fail("no active task", "")
        ELSE IF task.id = 0 THEN Fail("task not found", "")
        ELSE IF task.status # "in_progress"
        THEN Fail("task not in progress", task.status)
        ELSE /\ nextContextId <= MaxCheckpoints
             /\ tasks' = tasks1
             /\ todos' =
                  IF nextTask.id = 0 /\ \A t \in allTasks : t.status = "completed"
                  THEN [todos EXCEPT ![task.todo_id].status = "completed",
                                     ![task.todo_id].progress_percentage = 100]
                  ELSE todos
             /\ context_stack' = e.table
             /\ contextStack' = e.cache
             /\ nextContextId' = nextContextId + 1
             /\ last' = Result("handleConfirm", p, task.id, TRUE, "", NoContext)
             /\ UNCHANGED <<bugs, run, calls, calc>>

\* /erro description (a call without description returns at once and is
\* not a step)
handleError(p, description) ==
    LET r == activeContextOf(p)
        activeContext == r.context
        currentTask == IF activeContext.task_id # 0
                       THEN dbGetTask(tasks, activeContext.task_id) ELSE NoTask
    IN  /\ bugs < MaxErrors
        /\ bugs' = bugs + 1
        /\ contextStack' = [contextStack EXCEPT ![p] = r.cache]
        /\ tasks' =
             IF currentTask.id # 0
             THEN [tasks EXCEPT
                     ![currentTask.id].status = "failed",
                     ![currentTask.id].error_count = @ + 1,
                     ![currentTask.id].corrections_applied = Append(@, description)]
             ELSE tasks
        /\ last' = Result("handleError", p, currentTask.id, TRUE, "", NoContext)
        /\ UNCHANGED <<context_stack, nextContextId, todos, run, calls, calc>>

\* /continuar
handleContinue(p) ==
    LET r == activeContextOf(p)
        activeContext == r.context
        cache1 == [contextStack EXCEPT ![p] = r.cache]
        todoId == IF activeContext.todo_id \in 1..Len(todos)
                  THEN activeContext.todo_id ELSE 0
        allTasks == dbListTasks(tasks, todoId)
        Fail(msg) ==
            /\ contextStack' = cache1
            /\ last' = Result("handleContinue", p, 0, FALSE, msg, NoContext)
            /\ UNCHANGED <<context_stack, nextContextId, todos, tasks, bugs, run, calls, calc>>
    IN  IF activeContext.id = 0 THEN Fail("no active context")
        ELSE IF todoId = 0 THEN Fail("todo not found")
        ELSE /\ contextStack' = cache1
             /\ todos' =
                  IF /\ todos[todoId].status = "pending"
                     /\ \E t \in allTasks : t.status \in {"in_progress", "completed"}
                  THEN [todos EXCEPT ![todoId].status = "in_progress"]
                  ELSE todos
             /\ last' = Result("handleContinue", p, todoId, TRUE, "", NoContext)
             /\ UNCHANGED <<context_stack, nextContextId, tasks, bugs, run, calls, calc>>

\* updateTodo(id, {status: 'in_progress'}) issued on the store by a client
\* other than the handlers (no handler starts a pending todo)
updateTodoInProgress(id) ==
    /\ todos[id].status = "pending"
    /\ todos' = [todos EXCEPT ![id].status = "in_progress"]
    /\ last' = Result("updateTodo", todos[id].project_id, id, TRUE, "", NoContext)
    /\ UNCHANGED <<context_stack, nextContextId, contextStack, tasks, bugs, run, calls, calc>>

\* the task numbers /executar is called with: those of the three tasks
\* of a todo
TaskNumbers == {1, 2, 3}

\* the descriptions /erro is called with
ErrorDescriptions == {"e1"}

\* CommandContext.projectId of every command of a server process:
\* process.env.DEFAULT_PROJECT_ID
DEFAULT_PROJECT_ID == "p1"

\* the commands, issued one at a time, the activation of a todo on the
\* store, and the clearing of the cache (as by a new session)
Next ==
    \/ handleCreate(DEFAULT_PROJECT_ID)
    \/ \E n \in TaskNumbers, force \in BOOLEAN :
          handleExecute(DEFAULT_PROJECT_ID, n, force)
    \/ handleConfirm(DEFAULT_PROJECT_ID)
    \/ \E d \in ErrorDescriptions : handleError(DEFAULT_PROJECT_ID, d)
    \/ handleContinue(DEFAULT_PROJECT_ID)
    \/ clearCache(DEFAULT_PROJECT_ID)
    \/ \E id \in 1..Len(todos) : updateTodoInProgress(id)

Spec == Init /\ [][Next]_vars

\* the same, with /executar never given the force flag
NextNoForce ==
    \/ handleCreate(DEFAULT_PROJECT_ID)
    \/ \E n \in TaskNumbers : handleExecute(DEFAULT_PROJECT_ID, n, FALSE)
    \/ handleConfirm(DEFAULT_PROJECT_ID)
    \/ \E d \in ErrorDescriptions : handleError(DEFAULT_PROJECT_ID, d)
    \/ handleContinue(DEFAULT_PROJECT_ID)
    \/ clearCache(DEFAULT_PROJECT_ID)
    \/ \E id \in 1..Len(todos) : updateTodoInProgress(id)

SpecNoForce == Init /\ [][NextNoForce]_vars

---------------------------------------------------------------------------
(* CommandProcessor when a store call fails *)

\* what the catch block of a handler returns
StoreFailureMessages ==
    [handleCreate |-> "Erro ao criar TODO",
     handleExecute |-> "Erro ao executar task",
     handleConfirm |-> "Erro ao confirmar task",
     handleError |-> "Erro ao processar erro reportado"]

\* the CommandResult of a catch block: { success: false, message, error }
CaughtResult(op, p, arg) ==
    Result(op, p, arg, FALSE, StoreFailureMessages[op], NoContext)

\* /criar when db.createTodo throws: nothing has been written
handleCreateStoreFails(p) ==
    /\ last' = CaughtResult("handleCreate", p, 0)
    /\ UNCHANGED <<context_stack, nextContextId, contextStack, todos, tasks, bugs, run, calls, calc>>

\* /criar when db.createTodo has succeeded and db.createTask throws after
\* written tasks have been stored: the catch block returns the failure and
\* undoes nothing
handleCreateTaskWriteFails(p, written) ==
    /\ Len(todos) < MaxTodos
    /\ LET todoId == Len(todos) + 1
           consensus == analyzeWithAllAgents
           new == generateTasksFromAnalysis(todoId, consensus.developer,
                                            consensus.qa)
       IN  /\ written < Len(new)
           /\ todos' = Append(todos,
                 [project_id |-> p, status |-> "pending",
                  progress_percentage |-> 0])
           /\ tasks' = tasks \o SubSeq(new, 1, written)
           /\ last' = CaughtResult("handleCreate", p, written)
    /\ UNCHANGED <<context_stack, nextContextId, contextStack, bugs, run,
                   calls, calc>>

\* /criar when the todo and its tasks have been stored and the insert of
\* db.saveContext fails: the update before it has deactivated the project's
\* contexts, the manager's cache is not touched
handleCreateContextSaveFails(p) ==
    /\ Len(todos) < MaxTodos
    /\ LET todoId == Len(todos) + 1
           consensus == analyzeWithAllAgents
           new == generateTasksFromAnalysis(todoId, consensus.developer,
                                            consensus.qa)
       IN  /\ todos' = Append(todos,
                 [project_id |-> p, status |-> "pending",
                  progress_percentage |-> 0])
           /\ tasks' = tasks \o new
           /\ context_stack' =
                 {[c EXCEPT !.is_active =
                       IF c.project_id = p THEN FALSE ELSE c.is_active]
                    : c \in context_stack}
           /\ last' = CaughtResult("handleCreate", p, Len(new))
    /\ UNCHANGED <<nextContextId, contextStack, bugs, run, calls, calc>>

\* /executar when the first db.updateTask of executeTask throws: the
\* command has passed its checks and nothing has been written
handleExecuteStoreFails(p, taskNumber, force) ==
    LET activeTodo == dbGetActiveTodo(p)
        list == dbListTasks(tasks, activeTodo)
        found == {t \in list : t.sequence_number = taskNumber}
        targetTask == CHOOSE t \in found : TRUE
    IN  /\ activeTodo # 0
        /\ found # {}
        /\ force \/ checkTaskDependencies(tasks, targetTask) = {}
        /\ last' = CaughtResult("handleExecute", p, taskNumber)
        /\ UNCHANGED <<context_stack, nextContextId, contextStack, todos, tasks, bugs, run, calls, calc>>

\* /confirmar when db.updateTask throws: the task is still in_progress
handleConfirmStoreFails(p) ==
    LET r == activeContextOf(p)
        task == dbGetTask(tasks, r.context.task_id)
    IN  /\ r.context.id # 0 /\ r.context.task_id # 0
        /\ task.id # 0 /\ task.status = "in_progress"
        /\ contextStack' = [contextStack EXCEPT ![p] = r.cache]
        /\ last' = CaughtResult("handleConfirm", p, task.id)
        /\ UNCHANGED <<context_stack, nextContextId, todos, tasks, bugs, run, calls, calc>>

\* /erro when db.createBug throws: no bug and no task has been written
handleErrorStoreFails(p, description) ==
    LET r == activeContextOf(p)
    IN  /\ contextStack' = [contextStack EXCEPT ![p] = r.cache]
        /\ last' = CaughtResult("handleError", p, r.context.task_id)
        /\ UNCHANGED <<context_stack, nextContextId, todos, tasks, bugs, run, calls, calc>>

\* the commands on one todo, each with a store that answers or fails
NextFail ==
    \/ Len(todos) = 0 /\ handleCreate(DEFAULT_PROJECT_ID)
    \/ handleCreateStoreFails(DEFAULT_PROJECT_ID)
    \/ Len(todos) = 0 /\ \E written \in 0..2 :
          handleCreateTaskWriteFails(DEFAULT_PROJECT_ID, written)
    \/ Len(todos) = 0 /\ handleCreateContextSaveFails(DEFAULT_PROJECT_ID)
    \/ \E n \in TaskNumbers, force \in BOOLEAN :
          \/ handleExecute(DEFAULT_PROJECT_ID, n, force)
          \/ handleExecuteStoreFails(DEFAULT_PROJECT_ID, n, force)
    \/ handleConfirm(DEFAULT_PROJECT_ID)
    \/ handleConfirmStoreFails(DEFAULT_PROJECT_ID)
    \/ \E d \in ErrorDescriptions :
          \/ handleError(DEFAULT_PROJECT_ID, d)
          \/ handleErrorStoreFails(DEFAULT_PROJECT_ID, d)
    \/ \E id \in 1..Len(todos) : updateTodoInProgress(id)

SpecFail == Init /\ [][NextFail]_vars

---------------------------------------------------------------------------
(* ContextManager when a store call fails *)

\* getActiveContext reads the store only when the cache holds no row
\* flagged active
ReadsStore(p) ==
    \A i \in 1..Len(contextStack[p]) : ~contextStack[p][i].is_active

\* getActiveContext when db.getActiveContext throws: the catch block logs
\* and returns null; the cache is not touched
getActiveContextStoreFails(p) ==
    /\ ReadsStore(p)
    /\ last' = Result("getActiveContext", p, 0, FALSE, "lookup failed", NoContext)
    /\ UNCHANGED <<context_stack, nextContextId, contextStack, todos, tasks,
                   bugs, run, calls, calc>>

\* pushContext when the lookup of the current context fails and the save
\* that follows succeeds: currentContext is the null getActiveContext
\* returns from its catch block
pushContextLookupFails(p) ==
    /\ nextContextId <= MaxContexts
    /\ ReadsStore(p)
    /\ LET cur == NoContext
           stackDepth == IF cur.id # 0 THEN cur.stack_depth + 1 ELSE 0
           e == saveContextEffect(contextStack,
                                  ContextData(p, 0, 0, stackDepth, cur.id))
       IN  /\ context_stack' = e.table
           /\ contextStack' = e.cache
           /\ last' = Result("pushContext", p, 0, TRUE, "lookup failed", e.row)
    /\ nextContextId' = nextContextId + 1
    /\ UNCHANGED <<todos, tasks, bugs, run, calls, calc>>

\* popContext when the lookup of the current context fails: currentContext
\* is null and popContext returns null before it writes
popContextLookupFails(p) ==
    /\ ReadsStore(p)
    /\ last' = Result("popContext", p, 0, FALSE, "lookup failed", NoContext)
    /\ UNCHANGED <<context_stack, nextContextId, contextStack, todos, tasks,
                   bugs, run, calls, calc>>

\* saveContext when the update that deactivates the project's rows fails:
\* db.saveContext does not read the result of the update and goes on to the
\* insert, which succeeds
saveContextDeactivateFails(p) ==
    /\ nextContextId <= MaxContexts
    /\ LET tbl == dbInsertContext(context_stack, ContextData(p, 0, 0, 0, 0),
                                  nextContextId)
           row == dbSavedRow(tbl, nextContextId)
       IN  /\ context_stack' = tbl
           /\ contextStack' = [contextStack EXCEPT ![p] = Append(@, row)]
           /\ last' = Result("saveContext", p, 0, TRUE, "deactivate failed", row)
    /\ nextContextId' = nextContextId + 1
    /\ UNCHANGED <<todos, tasks, bugs, run, calls, calc>>

\* the operations of ContextManager, each store call of which may fail
NextCtxFail ==
    \/ NextCtx
    \/ \E p \in Projects :
          \/ getActiveContextStoreFails(p)
          \/ pushContextLookupFails(p)
          \/ popContextLookupFails(p)
          \/ saveContextDeactivateFails(p)

SpecCtxFail == Init /\ [][NextCtxFail]_vars

---------------------------------------------------------------------------
(* generateTasksFromAnalysis on its own *)

\* the id of the todo the tasks are generated for
GenTodoId == 1

\* a call generateTasksFromAnalysis(todo, analysis) for every set of keys
\* analysis.consensus can hold
InitGen ==
    /\ context_stack = {}
    /\ nextContextId = 1
    /\ contextStack = [p \in Projects |-> <<>>]
    /\ todos = <<>>
    /\ tasks = <<>>
    /\ bugs = 0
    /\ last = Result("init", "", 0, TRUE, "", NoContext)
    /\ run = NoRun
    /\ calls = [c \in Callers |-> NoCall]
    /\ calc \in {[NoCalc EXCEPT !.fn = "generateTasksFromAnalysis",
                                !.pc = "called", !.consensus = keys]
                   : keys \in SUBSET {Registry[i] : i \in 1..Len(Registry)}}

\* the call returns the generated tasks
generateTasksReturns ==
    /\ calc.fn = "generateTasksFromAnalysis" /\ calc.pc = "called"
    /\ calc' = [calc EXCEPT
          !.pc = "returned",
          !.tasks = generateTasksFromAnalysis(GenTodoId,
                        "developer" \in calc.consensus, "qa" \in calc.consensus)]
    /\ UNCHANGED <<context_stack, nextContextId, contextStack, todos, tasks,
                   bugs, last, run, calls>>

NextGen == generateTasksReturns

SpecGen == InitGen /\ [][NextGen]_vars

---------------------------------------------------------------------------
(* AgentOrchestrator *)

\* how an evaluator's analyze ends: it returns a response or it throws
Outcomes == {"ok", "threw"}

\* the confidence (in percent) of a response an evaluator returns
OkConfidence == 80

\* the confidence (in percent) of the entry that stands for an evaluator
\* that threw
ErrorConfidence == 10

\* a mutant of AgentResponse: the entry of an evaluator that threw carries
\* no suggestion
AgentResponseNoReview(a, outcome) ==
    IF outcome = "ok"
    THEN [agent |-> a, confidence |-> OkConfidence, suggestions |-> {"s1"}]
    ELSE [agent |-> a, confidence |-> ErrorConfidence, suggestions |-> {}]

\* the entry of responses for evaluator a: its own response, or, when it
\* threw, the entry the catch clause builds
AgentResponse(a, outcome) ==
    IF outcome = "ok"
    THEN [agent |-> a, confidence |-> OkConfidence, suggestions |-> {"s1"}]
    ELSE [agent |-> a, confidence |-> ErrorConfidence,
          suggestions |-> {"Revisar manualmente"}]

\* the elements of a sequence
Range(seq) == {seq[i] : i \in 1..Len(seq)}

\* the agent lists analyzeWithSpecificAgents is called with: the one of
\* /erro, a single evaluator, a pair against the registry order, none
Selections ==
    {<<"developer", "qa", "architect">>, <<"dba">>, <<"po", "business">>, <<>>}

\* analyzeWithAllAgents up to Promise.all: the map over the registry invokes
\* analyze of every evaluator, in registry order, before anything is awaited
allAgentsFanOut ==
    /\ run.pc \in {"idle", "done"}
    /\ run' = [NoRun EXCEPT !.mode = "all", !.selected = Registry,
                            !.started = Registry, !.pc = "waiting"]
    /\ UNCHANGED <<context_stack, nextContextId, contextStack, todos, tasks,
                   bugs, last, calls, calc>>

\* an evaluator whose analyze was invoked returns or throws; the try/catch
\* around the call turns either into its entry
agentSettles(a, outcome) ==
    /\ run.pc = "waiting"
    /\ a \in Range(run.started)
    /\ a \notin DOMAIN run.settled
    /\ run' = [run EXCEPT
                 !.settled = (a :> [outcome |-> outcome,
                                    response |-> AgentResponse(a, outcome)]) @@ @,
                 !.firstSettled = IF @ = "" THEN a ELSE @]
    /\ UNCHANGED <<context_stack, nextContextId, contextStack, todos, tasks,
                   bugs, last, calls, calc>>

\* a mutant of allAgentsJoin: the entry of the evaluator that finished
\* first comes first
allAgentsJoinFirstSettledFirst ==
    /\ run.mode = "all" /\ run.pc = "waiting"
    /\ Range(run.selected) \subseteq DOMAIN run.settled
    /\ run' = [run EXCEPT
                 !.responses =
                     <<run.settled[run.firstSettled].response>> \o
                     SelectSeq([i \in 1..Len(run.selected) |->
                                   run.settled[run.selected[i]].response],
                               LAMBDA r : r.agent # run.firstSettled),
                 !.pc = "done"]
    /\ UNCHANGED <<context_stack, nextContextId, contextStack, todos, tasks,
                   bugs, last, calls, calc>>

\* analyzeWithAllAgents after Promise.all: every promise has settled and the
\* results come in the order of the promises
allAgentsJoin ==
    /\ run.mode = "all" /\ run.pc = "waiting"
    /\ Range(run.selected) \subseteq DOMAIN run.settled
    /\ run' = [run EXCEPT
                 !.responses = [i \in 1..Len(run.selected) |->
                                   run.settled[run.selected[i]].response],
                 !.pc = "done"]
    /\ UNCHANGED <<context_stack, nextContextId, contextStack, todos, tasks,
                   bugs, last, calls, calc>>

\* analyzeWithSpecificAgents(request, agentTypes) up to its first await: the
\* loop invokes analyze of the first evaluator and awaits it
specificAgentsStart(agentTypes) ==
    /\ run.pc \in {"idle", "done"}
    /\ run' = IF agentTypes = <<>>
              THEN [NoRun EXCEPT !.mode = "specific", !.pc = "done"]
              ELSE [NoRun EXCEPT !.mode = "specific", !.selected = agentTypes,
                                 !.started = <<agentTypes[1]>>,
                                 !.pc = "waiting"]
    /\ UNCHANGED <<context_stack, nextContextId, contextStack, todos, tasks,
                   bugs, last, calls, calc>>

\* analyzeWithSpecificAgents after an await: the entry of the evaluator
\* awaited is pushed, then the loop invokes the next evaluator and awaits
\* it, or ends
specificAgentsNext ==
    /\ run.mode = "specific" /\ run.pc = "waiting"
    /\ LET i == Len(run.started)
           a == run.started[i]
       IN  /\ a \in DOMAIN run.settled
           /\ run' = IF i < Len(run.selected)
                     THEN [run EXCEPT
                             !.responses = Append(@, run.settled[a].response),
                             !.started = Append(@, run.selected[i + 1])]
                     ELSE [run EXCEPT
                             !.responses = Append(@, run.settled[a].response),
                             !.pc = "done"]
    /\ UNCHANGED <<context_stack, nextContextId, contextStack, todos, tasks,
                   bugs, last, calls, calc>>

\* the two analyses, and the evaluators finishing in any order
NextOrch ==
    \/ allAgentsFanOut
    \/ \E a \in Range(Registry), outcome \in Outcomes : agentSettles(a, outcome)
    \/ allAgentsJoin
    \/ \E agentTypes \in Selections : specificAgentsStart(agentTypes)
    \/ specificAgentsNext

SpecOrch == Init /\ [][NextOrch]_vars

---------------------------------------------------------------------------
(* AgentOrchestrator.generateRecommendations *)

\* .slice(0, 10)
RecommendationLimit == 10

\* the suggestion texts: twelve different ones
Suggestions ==
    {"s01", "s02", "s03", "s04", "s05", "s06",
     "s07 urgente", "s08", "s09", "s10 crítico", "s11", "s12 atenção"}

\* priorityKeywords.some(keyword => a.toLowerCase().includes(keyword))
HasPriorityKeyword(a) == a \in {"s07 urgente", "s10 crítico", "s12 atenção"}

\* the response.suggestions the evaluators return in the model: lists
\* that overlap, repeat an entry, or are empty
SuggestionLists ==
    {<<>>,
     <<"s01", "s02", "s03", "s04">>,
     <<"s05", "s06", "s07 urgente", "s08">>,
     <<"s09", "s10 crítico", "s11", "s12 atenção">>,
     <<"s01", "s01", "s05">>,
     <<"s12 atenção", "s02">>}

\* the most responses one call is given
MaxResponses == 4

RECURSIVE Flatten(_)
\* allSuggestions.push(...response.suggestions) for each response in turn
Flatten(lists) ==
    IF lists = <<>> THEN <<>> ELSE Head(lists) \o Flatten(Tail(lists))

RECURSIVE Unique(_)
\* Array.from(new Set(list)): the first occurrence of each string, in order
Unique(list) ==
    IF list = <<>> THEN <<>>
    ELSE LET init == Unique(SubSeq(list, 1, Len(list) - 1))
             x == list[Len(list)]
         IN  IF \E k \in 1..Len(init) : init[k] = x THEN init
             ELSE Append(init, x)

\* a mutant of generateRecommendations: the suggestions are not deduplicated
generateRecommendationsNoSet(lists) ==
    LET allSuggestions == Flatten(lists)
        IsPriority(a) == HasPriorityKeyword(a)
        IsOther(a) == ~HasPriorityKeyword(a)
        prioritizedSuggestions ==
            SelectSeq(allSuggestions, IsPriority)
              \o SelectSeq(allSuggestions, IsOther)
    IN  SubSeq(prioritizedSuggestions, 1,
               IF Len(prioritizedSuggestions) < RecommendationLimit
               THEN Len(prioritizedSuggestions) ELSE RecommendationLimit)

\* a mutant of generateRecommendations: the suggestions are not sorted
generateRecommendationsNoSort(lists) ==
    LET uniqueSuggestions == Unique(Flatten(lists))
    IN  SubSeq(uniqueSuggestions, 1,
               IF Len(uniqueSuggestions) < RecommendationLimit
               THEN Len(uniqueSuggestions) ELSE RecommendationLimit)

\* generateRecommendations(responses): collect, deduplicate, sort (stable)
\* the suggestions with a priority keyword first, keep the first 10
generateRecommendations(lists) ==
    LET allSuggestions == Flatten(lists)
        uniqueSuggestions == Unique(allSuggestions)
        IsPriority(a) == HasPriorityKeyword(a)
        IsOther(a) == ~HasPriorityKeyword(a)
        prioritizedSuggestions ==
            SelectSeq(uniqueSuggestions, IsPriority)
              \o SelectSeq(uniqueSuggestions, IsOther)
    IN  SubSeq(prioritizedSuggestions, 1,
               IF Len(prioritizedSuggestions) < RecommendationLimit
               THEN Len(prioritizedSuggestions) ELSE RecommendationLimit)

\* a call generateRecommendations(responses) for every list of at most
\* MaxResponses responses
InitRec ==
    /\ context_stack = {}
    /\ nextContextId = 1
    /\ contextStack = [p \in Projects |-> <<>>]
    /\ todos = <<>>
    /\ tasks = <<>>
    /\ bugs = 0
    /\ last = Result("init", "", 0, TRUE, "", NoContext)
    /\ run = NoRun
    /\ calls = [c \in Callers |-> NoCall]
    /\ \E n \in 0..MaxResponses :
         calc \in {[NoCalc EXCEPT !.fn = "generateRecommendations",
                                  !.pc = "called", !.suggestions = lists]
                     : lists \in [1..n -> SuggestionLists]}

\* the call returns the recommendations
generateRecommendationsReturns ==
    /\ calc.fn = "generateRecommendations" /\ calc.pc = "called"
    /\ calc' = [calc EXCEPT
          !.pc = "returned",
          !.recommendations = generateRecommendations(calc.suggestions)]
    /\ UNCHANGED <<context_stack, nextContextId, contextStack, todos, tasks,
                   bugs, last, run, calls>>

NextRec == generateRecommendationsReturns

SpecRec == InitRec /\ [][NextRec]_vars

---------------------------------------------------------------------------
(* BaseAgent.calculateConfidence *)

\* the values of a factor: 1-5
FactorRange == 1..5

\* Numbers are counted in thousandths up to the rounding and in hundredths
\* after it: the factors are whole numbers, so every intermediate value of
\* the code is a multiple of 0.05 and Math.round recovers it exactly from
\* its floating-point approximation.
\* Math.max(0.1, Math.min(1.0, x))
Clamp(x) == IF x < 100 THEN 100 ELSE IF x > 1000 THEN 1000 ELSE x

\* Math.round(confidence * 100) / 100: halves go up
RoundToHundredths(x) == (x + 5) \div 10

\* a mutant of calculateConfidence: the value is not clamped
calculateConfidenceNoClamp(complexity, familiarity, riskLevel, dataQuality) ==
    LET baseConfidence == 500 * (familiarity + dataQuality)
        complexityPenalty == (complexity - 1) * 100
        riskPenalty == (riskLevel - 1) * 150
    IN  RoundToHundredths((baseConfidence \div 5) - complexityPenalty - riskPenalty)

\* a mutant of calculateConfidence: the risk penalty is added
calculateConfidenceRiskAdded(complexity, familiarity, riskLevel, dataQuality) ==
    LET baseConfidence == 500 * (familiarity + dataQuality)
        complexityPenalty == (complexity - 1) * 100
        riskPenalty == (riskLevel - 1) * 150
    IN  RoundToHundredths(
            Clamp((baseConfidence \div 5) - complexityPenalty + riskPenalty))

\* calculateConfidence(factors): baseConfidence = (familiarity +
\* dataQuality) / 2, less 0.1 per step of complexity and 0.15 per step of
\* riskLevel, clamped to [0.1, 1.0] and rounded to two decimals
calculateConfidence(complexity, familiarity, riskLevel, dataQuality) ==
    LET baseConfidence == 500 * (familiarity + dataQuality)
        complexityPenalty == (complexity - 1) * 100
        riskPenalty == (riskLevel - 1) * 150
    IN  RoundToHundredths(
            Clamp((baseConfidence \div 5) - complexityPenalty - riskPenalty))

\* a call calculateConfidence(factors) for every tuple of factors
InitConf ==
    /\ context_stack = {}
    /\ nextContextId = 1
    /\ contextStack = [p \in Projects |-> <<>>]
    /\ todos = <<>>
    /\ tasks = <<>>
    /\ bugs = 0
    /\ last = Result("init", "", 0, TRUE, "", NoContext)
    /\ run = NoRun
    /\ calls = [c \in Callers |-> NoCall]
    /\ calc \in {[NoCalc EXCEPT !.fn = "calculateConfidence", !.pc = "called",
                                !.factors = f]
                   : f \in [complexity : FactorRange, familiarity : FactorRange,
                            riskLevel : FactorRange, dataQuality : FactorRange]}

\* the call returns the confidence
calculateConfidenceReturns ==
    /\ calc.fn = "calculateConfidence" /\ calc.pc = "called"
    /\ calc' = [calc EXCEPT
          !.pc = "returned",
          !.confidence =
              calculateConfidence(calc.factors.complexity,
                  calc.factors.familiarity, calc.factors.riskLevel,
                  calc.factors.dataQuality)]
    /\ UNCHANGED <<context_stack, nextContextId, contextStack, todos, tasks,
                   bugs, last, run, calls>>

NextConf == calculateConfidenceReturns

SpecConf == InitConf /\ [][NextConf]_vars

---------------------------------------------------------------------------
(* The evaluators: analyze *)

\* confidence of the response an evaluator returns from its catch block
AgentErrorConfidence == 10

\* the text of the response an evaluator returns from its catch block
ErrorTexts ==
    [architect |-> "Erro na análise arquitetural. Recomendo revisão manual.",
     developer |-> "Erro na análise de código. Recomendo revisão manual do contexto.",
     dba |-> "Erro na análise de performance. Recomendo análise manual do impacto.",
     qa |-> "Erro na análise de qualidade. Recomendo revisão manual dos cenários.",
     business |-> "Erro na análise de impacto no negócio. Recomendo validação manual com usuários.",
     po |-> "Erro na análise de prioridade. Recomendo revisão manual do valor de negócio."]

\* the familiarity each evaluator claims
Familiarity(a) == IF a = "developer" THEN 5 ELSE 4

\* the dataQuality each evaluator derives from the context (codeContext
\* for architect and developer, businessRules for business)
DataQuality(a, hasData) ==
    CASE a = "architect" -> IF hasData THEN 4 ELSE 2
      [] a = "developer" -> IF hasData THEN 5 ELSE 3
      [] a = "business" -> IF hasData THEN 5 ELSE 3
      [] OTHER -> 4

\* formatResponse(response, confidence, suggestions = []); response is
\* the text without the `emoji **name**: ` prefix the code puts before it
formatResponse(a, response, confidence, suggestions) ==
    [agent |-> a, response |-> response, confidence |-> confidence,
     suggestions |-> suggestions]

\* a mutant of analyze: the catch block keeps the computed confidence
analyzeCatchKeepsConfidence(a, analysis) ==
    formatResponse(a,
        IF analysis.fails THEN ErrorTexts[a] ELSE "analysis",
        calculateConfidence(analysis.complexity, Familiarity(a),
                            analysis.riskLevel, DataQuality(a, analysis.hasData)),
        IF analysis.fails THEN {} ELSE {"s01"})

\* analyze(context): the evaluator's analysis with the confidence computed
\* from it, or, if the analysis throws, the error text with confidence
\* 0.1 and no suggestions
analyze(a, analysis) ==
    IF analysis.fails
    THEN formatResponse(a, ErrorTexts[a], AgentErrorConfidence, {})
    ELSE formatResponse(a, "analysis",
             calculateConfidence(analysis.complexity, Familiarity(a),
                                 analysis.riskLevel,
                                 DataQuality(a, analysis.hasData)),
             {"s01"})

\* a call analyze(context) of every evaluator, for every analysis
InitAgent ==
    /\ context_stack = {}
    /\ nextContextId = 1
    /\ contextStack = [p \in Projects |-> <<>>]
    /\ todos = <<>>
    /\ tasks = <<>>
    /\ bugs = 0
    /\ last = Result("init", "", 0, TRUE, "", NoContext)
    /\ run = NoRun
    /\ calls = [c \in Callers |-> NoCall]
    /\ calc \in {[NoCalc EXCEPT !.fn = "analyze", !.pc = "called",
                                !.agent = a, !.analysis = x]
                   : a \in {Registry[i] : i \in 1..Len(Registry)},
                     x \in [complexity : FactorRange, riskLevel : FactorRange,
                            hasData : BOOLEAN, fails : BOOLEAN]}

\* the call returns (nothing escapes the try/catch of analyze)
analyzeReturns ==
    /\ calc.fn = "analyze" /\ calc.pc = "called"
    /\ calc' = [calc EXCEPT !.pc = "returned",
                            !.response = analyze(calc.agent, calc.analysis)]
    /\ UNCHANGED <<context_stack, nextContextId, contextStack, todos, tasks,
                   bugs, last, run, calls>>

NextAgent == analyzeReturns

SpecAgent == InitAgent /\ [][NextAgent]_vars

---------------------------------------------------------------------------
(* AgentOrchestrator.generateConsensus *)

\* Texts are sequences of UTF-16 code units, which is what a JavaScript
\* string is and what a regular expression without the u flag matches on.

\* this.emoji of each evaluator
Emoji ==
    [architect |-> <<55356, 57303, 65039>>,
     developer |-> <<55357, 56507>>,
     dba |-> <<55357, 56772, 65039>>,
     qa |-> <<55358, 56810>>,
     business |-> <<55357, 56522>>,
     po |-> <<55356, 57263>>]

\* this.name of each evaluator
Name ==
    [architect |-> <<65, 114, 113, 117, 105, 116, 101, 116, 111, 32, 100, 101,
                     32, 83, 111, 108, 117, 231, 245, 101, 115>>,
     developer |-> <<68, 101, 115, 101, 110, 118, 111, 108, 118, 101, 100,
                     111, 114, 32, 83, 234, 110, 105, 111, 114>>,
     dba |-> <<68, 66, 65, 32, 69, 115, 112, 101, 99, 105, 97, 108, 105, 115,
               116, 97>>,
     qa |-> <<81, 65, 32, 65, 110, 97, 108, 121, 115, 116>>,
     business |-> <<65, 110, 97, 108, 105, 115, 116, 97, 32, 100, 101, 32, 78,
                    101, 103, 243, 99, 105, 111, 115>>,
     po |-> <<80, 114, 111, 100, 117, 99, 116, 32, 79, 119, 110, 101, 114>>]

\* the code units of " ", "*" and ":"
SpaceUnit == 32
StarUnit == 42
ColonUnit == 58

\* the template literal of formatResponse:
\*   `${this.emoji} **${this.name}**: ${response}`
formatResponseText(a, response) ==
    Emoji[a] \o <<SpaceUnit, StarUnit, StarUnit>> \o Name[a]
      \o <<StarUnit, StarUnit, ColonUnit, SpaceUnit>> \o response

\* the code units the character class [...] of the regular expression
\* holds: without the u flag each half of a surrogate pair is a member
EmojiClass ==
    {55356, 55357, 55358, 56507, 56522, 56772, 56810, 57263, 57303, 65039}

\* the code units \s matches
IsSpace(u) ==
    u \in {9, 10, 11, 12, 13, 32, 160, 5760, 8232, 8233, 8239, 8287, 12288,
           65279} \cup (8192..8202)

\* the number of code units \s* takes from position i of t
RECURSIVE SpacesFrom(_, _)
SpacesFrom(t, i) ==
    IF i <= Len(t) /\ IsSpace(t[i]) THEN 1 + SpacesFrom(t, i + 1) ELSE 0

\* the number of code units [^*]* takes from position i of t
RECURSIVE NonStarsFrom(_, _)
NonStarsFrom(t, i) ==
    IF i <= Len(t) /\ t[i] # StarUnit THEN 1 + NonStarsFrom(t, i + 1) ELSE 0

\* the length of the match of
\*   /^[<emoji>]\s*\*\*[^*]+\*\*:\s*/
\* in t, 0 when it does not match.  The class takes exactly one code unit;
\* no quantifier can give back a unit the next element accepts, so the
\* greedy match is the only one.
MatchLength(t) ==
    IF Len(t) = 0 \/ t[1] \notin EmojiClass
    THEN 0
    ELSE LET a == 2 + SpacesFrom(t, 2)
         IN  IF ~(a + 1 <= Len(t) /\ t[a] = StarUnit /\ t[a + 1] = StarUnit)
             THEN 0
             ELSE LET n == NonStarsFrom(t, a + 2)
                      c == a + 2 + n
                  IN  IF n = 0 \/ ~(/\ c + 2 <= Len(t)
                                    /\ t[c] = StarUnit
                                    /\ t[c + 1] = StarUnit
                                    /\ t[c + 2] = ColonUnit)
                      THEN 0
                      ELSE c + 2 + SpacesFrom(t, c + 3)

\* response.response.replace(<the regular expression>, '')
cleanResponse(t) == SubSeq(t, MatchLength(t) + 1, Len(t))

\* generateConsensus(responses): one entry per agent of the responses, the
\* last response of an agent last
generateConsensus(responses) ==
    [a \in {responses[i].agent : i \in 1..Len(responses)} |->
       LET i == CHOOSE j \in 1..Len(responses) :
                  /\ responses[j].agent = a
                  /\ \A k \in 1..Len(responses) :
                       responses[k].agent = a => k <= j
       IN  cleanResponse(responses[i].response)]

\* longest body of the calls of generateConsensus
MaxBody == 3

\* the code units of the bodies: a letter, a space, "*" and ":"
BodyUnits == {65, SpaceUnit, StarUnit, ColonUnit}

\* the bodies
Bodies == UNION {[1..n -> BodyUnits] : n \in 0..MaxBody}

\* an evaluator is about to format a body
InitCons ==
    /\ context_stack = {}
    /\ nextContextId = 1
    /\ contextStack = [p \in Projects |-> <<>>]
    /\ todos = <<>>
    /\ tasks = <<>>
    /\ bugs = 0
    /\ last = Result("init", "", 0, TRUE, "", NoContext)
    /\ run = NoRun
    /\ calls = [c \in Callers |-> NoCall]
    /\ calc \in {[NoCalc EXCEPT !.fn = "generateConsensus", !.pc = "called",
                                !.agent = a, !.body = b]
                   : a \in {Registry[i] : i \in 1..Len(Registry)},
                     b \in Bodies}

\* the evaluator formats the body
formatResponseReturns ==
    /\ calc.fn = "generateConsensus" /\ calc.pc = "called"
    /\ calc' = [calc EXCEPT !.pc = "formatted",
                            !.text = formatResponseText(calc.agent, calc.body)]
    /\ UNCHANGED <<context_stack, nextContextId, contextStack, todos, tasks,
                   bugs, last, run, calls>>

\* generateConsensus is given the response
generateConsensusReturns ==
    /\ calc.fn = "generateConsensus" /\ calc.pc = "formatted"
    /\ calc' = [calc EXCEPT
                  !.pc = "returned",
                  !.clean = generateConsensus(
                              <<[agent |-> calc.agent,
                                 response |-> calc.text]>>)[calc.agent]]
    /\ UNCHANGED <<context_stack, nextContextId, contextStack, todos, tasks,
                   bugs, last, run, calls>>

NextCons == formatResponseReturns \/ generateConsensusReturns

SpecCons == InitCons /\ [][NextCons]_vars

---------------------------------------------------------------------------
(* AgentOrchestrator.checkAlignment *)

\* Texts are sequences of words separated by single spaces, so that every
\* word starts and ends at a \b of the regular expression.

\* the one-word alternatives of the regular expression of extractKeywords
SingleKeywords ==
    {"api", "async", "performance", "cache", "transaction", "validation",
     "test", "database", "query", "index"}

\* the words of the texts: keywords, one of them in capitals, the two
\* words of "service layer", and a word that is no keyword
Words == {"api", "API", "cache", "service", "layer", "other"}

\* toLowerCase of a word
toLowerCase(w) == IF w = "API" THEN "api" ELSE w

\* longest text, in words
MaxWords == 2

\* the texts
Texts == UNION {[1..n -> Words] : n \in 0..MaxWords}

RECURSIVE MatchesFrom(_, _)
\* the matches of the regular expression (flag g) in text from word i on,
\* in order of occurrence, repetitions included
MatchesFrom(text, i) ==
    IF i > Len(text) THEN <<>>
    ELSE IF /\ i < Len(text)
            /\ toLowerCase(text[i]) = "service"
            /\ toLowerCase(text[i + 1]) = "layer"
    THEN <<"service layer">> \o MatchesFrom(text, i + 2)
    ELSE IF toLowerCase(text[i]) \in SingleKeywords
    THEN <<toLowerCase(text[i])>> \o MatchesFrom(text, i + 1)
    ELSE MatchesFrom(text, i + 1)

\* extractKeywords(text): text.toLowerCase().match(/.../g) || []
extractKeywords(text) == MatchesFrom(text, 1)

\* checkAlignment(view1, view2): the keywords of view1 that view2 has too,
\* each as often as view1 has it, are at least two
checkAlignment(view1, view2) ==
    LET keywords1 == extractKeywords(view1)
        keywords2 == extractKeywords(view2)
        Includes(k) == \E j \in 1..Len(keywords2) : keywords2[j] = k
        commonKeywords == SelectSeq(keywords1, Includes)
    IN  Len(commonKeywords) >= 2

\* a call checkAlignment(view1, view2) for every pair of texts
InitAlign ==
    /\ context_stack = {}
    /\ nextContextId = 1
    /\ contextStack = [p \in Projects |-> <<>>]
    /\ todos = <<>>
    /\ tasks = <<>>
    /\ bugs = 0
    /\ last = Result("init", "", 0, TRUE, "", NoContext)
    /\ run = NoRun
    /\ calls = [c \in Callers |-> NoCall]
    /\ calc \in {[NoCalc EXCEPT !.fn = "checkAlignment", !.pc = "called",
                                !.text1 = a, !.text2 = b]
                   : a \in Texts, b \in Texts}

\* the call returns
checkAlignmentReturns ==
    /\ calc.fn = "checkAlignment" /\ calc.pc = "called"
    /\ calc' = [calc EXCEPT
                  !.pc = "returned",
                  !.aligned = checkAlignment(calc.text1, calc.text2)]
    /\ UNCHANGED <<context_stack, nextContextId, contextStack, todos, tasks,
                   bugs, last, run, calls>>

NextAlign == checkAlignmentReturns

SpecAlign == InitAlign /\ [][NextAlign]_vars

---------------------------------------------------------------------------
(* saveContext called concurrently *)

\* the calls that have run their update and not yet their insert
PendingInserts == {c \in Callers : calls[c].pc = "deactivated"}

\* DatabaseService.saveContext, first store operation:
\* update is_active = false where project_id = p (its result is not read)
saveContextDeactivate(c, p) ==
    /\ calls[c].pc = "idle"
    /\ nextContextId + Cardinality(PendingInserts) <= MaxContexts
    /\ context_stack' =
          {[x EXCEPT !.is_active =
                IF x.project_id = p THEN FALSE ELSE x.is_active]
             : x \in context_stack}
    /\ calls' = [calls EXCEPT ![c] = [pc |-> "deactivated", project |-> p, row |-> 0]]
    /\ UNCHANGED <<nextContextId, contextStack, todos, tasks, bugs, last, run, calc>>

\* DatabaseService.saveContext, second store operation:
\* insert {...context, is_active: true}, select, single
saveContextInsert(c) ==
    /\ calls[c].pc = "deactivated"
    /\ LET data == ContextData(calls[c].project, 0, 0, 0, 0)
       IN  context_stack' = dbInsertContext(context_stack, data, nextContextId)
    /\ nextContextId' = nextContextId + 1
    /\ calls' = [calls EXCEPT ![c].pc = "inserted", ![c].row = nextContextId]
    /\ UNCHANGED <<contextStack, todos, tasks, bugs, last, run, calc>>

\* ContextManager.saveContext after the await: push the returned row on
\* the project's cache and return it
saveContextReturn(c) ==
    /\ calls[c].pc = "inserted"
    /\ LET row == dbSavedRow(context_stack, calls[c].row)
       IN  /\ contextStack' = [contextStack EXCEPT ![calls[c].project] = Append(@, row)]
           /\ last' = Result("saveContext", calls[c].project, 0, TRUE, "", row)
    /\ calls' = [calls EXCEPT ![c] = NoCall]
    /\ UNCHANGED <<context_stack, nextContextId, todos, tasks, bugs, run, calc>>

\* saveContext calls of several callers, interleaved at their awaits
NextSave ==
    \E c \in Callers :
        \/ \E p \in Projects : saveContextDeactivate(c, p)
        \/ saveContextInsert(c)
        \/ saveContextReturn(c)

SpecSave == Init /\ [][NextSave]_vars

---------------------------------------------------------------------------
(* The resumption-context stack: claims C1, C7, C8, C9, C10 *)

\* the rows of the project that the store flags active
ActiveRows(tbl, p) == {c \in tbl : c.project_id = p /\ c.is_active}

\* C1: after any sequence of ContextManager operations issued one at a
\* time, the store holds at most one active context per project.
C1_AtMostOneActive ==
    \A p \in Projects : Cardinality(ActiveRows(context_stack, p)) <= 1

\* C7: pushContext(A), pushContext(B), popContext() in one ContextManager
\* instance: the pop returns A (the row inserted just before B), and in the
\* store A is active with resumed_at set and B is inactive.
C7_PushPushPopReturnsA ==
    [][ (/\ last.op = "pushContext" /\ last.pushes = 2
         /\ last'.op = "popContext" /\ last'.project = last.project)
        => LET B == dbGetContext(context_stack', last.context.id)
               A == dbGetContext(context_stack', last.context.id - 1)
           IN  /\ last'.context.id = A.id
               /\ A.is_active /\ A.resumed_at
               /\ ~B.is_active ]_vars

\* C8: getActiveContext(projectId) returns the context that is active in
\* the store for the project, none when the store has none.
C8_GetActiveReturnsStoreActive ==
    last.op = "getActiveContext"
        => last.context = dbGetActiveContext(last.project)

\* C9: popContext when the project's active context has no parent returns
\* no context and leaves every stored context unchanged.
C9_PopOnRootFailsUnchanged ==
    [][ \A p \in Projects :
          (/\ dbGetActiveContext(p).id # 0
           /\ dbGetActiveContext(p).parent_context_id = 0
           /\ last'.op = "popContext" /\ last'.project = p)
          => (last'.context.id = 0 /\ context_stack' = context_stack) ]_vars

\* C10: a pushContext immediately following another pushContext for the
\* same project leaves exactly one active context in the store for that
\* project, the one pushed last.
C10_PushAfterPushOneActive ==
    (last.op = "pushContext" /\ last.pushes = 2)
        => /\ ActiveRows(context_stack, last.project) = {last.context}
           /\ last.context.id = nextContextId - 1

\* C10 witness: two pushes in a row have happened on a project
C10_Witness ==
    /\ last.op = "pushContext" /\ last.pushes = 2
    /\ Cardinality({c \in context_stack : c.project_id = last.project}) >= 2

---------------------------------------------------------------------------
(* The commands: claims C2, C3, C4, C5, C6 *)

\* the tasks of todo t that its task number n names in its dependencies,
\* the names read as task numbers of the same todo
DependencySteps(tbl, t, n) ==
    {d \in dbListTasks(tbl, t) :
        \E s \in dbListTasks(tbl, t) :
            s.sequence_number = n /\ d.sequence_number \in s.dependencies}

\* the number of completed tasks in a set of rows
CompletedSteps(list) == Cardinality({t \in list : t.status = "completed"})

\* C2: with an in_progress todo, /executar n without force starts task n
\* only if every task of that same todo named in the dependencies of n is
\* completed (and refuses otherwise), whatever other todos the store holds.
C2_ExecuteGatedBySameTodo ==
    [][ LET t == dbGetActiveTodo(DEFAULT_PROJECT_ID)
        IN  (/\ t # 0
             /\ last'.op = "handleExecute" /\ last'.success /\ ~last'.force)
            => \A d \in DependencySteps(tasks, t, last'.arg) :
                   d.status = "completed" ]_vars

\* the statuses of tasks 1, 2, 3 after k commands of the sequence
\* /executar 1, /confirmar, /executar 2, /confirmar, /executar 3, /confirmar
ScriptStatuses(k) ==
    [i \in 1..3 |->
        IF 2 * i <= k THEN "completed"
        ELSE IF 2 * i - 1 = k THEN "in_progress" ELSE "pending"]

\* the state after /criar on the empty store followed by the first k
\* commands of the sequence, nothing else having been issued; after the
\* last one the todo is completed at progress 100
OnScript(k) ==
    /\ Len(todos) = 1 /\ Len(tasks) = 3 /\ bugs = 0
    /\ nextContextId = 2 + (k \div 2)
    /\ Len(contextStack[DEFAULT_PROJECT_ID]) = nextContextId - 1
    /\ last.success
    /\ last.op = IF k = 0 THEN "handleCreate"
                 ELSE IF k % 2 = 1 THEN "handleExecute" ELSE "handleConfirm"
    /\ \A i \in 1..3 : tasks[i].status = ScriptStatuses(k)[i]
    /\ k = 6 => /\ todos[1].status = "completed"
                /\ todos[1].progress_percentage = 100

\* C3: /criar produces tasks 1 (no dependencies), 2 (depends on 1) and 3
\* (depends on 2); /executar 2 before task 1 is completed fails; and each
\* command of /executar 1, /confirmar, /executar 2, /confirmar,
\* /executar 3, /confirmar succeeds, the last one leaving the todo
\* completed at progress 100.
C3_ThreeStepScenario ==
    [][ /\ (last'.op = "handleCreate" /\ Len(todos) = 0)
            => /\ Len(tasks') = 3
               /\ \A i \in 1..3 : tasks'[i].sequence_number = i
               /\ tasks'[1].dependencies = {}
               /\ tasks'[2].dependencies = {1}
               /\ tasks'[3].dependencies = {2}
        /\ \A k \in 0..1 :
              (/\ OnScript(k)
               /\ last'.op = "handleExecute" /\ last'.arg = 2 /\ ~last'.force)
              => ~last'.success
        /\ \A k \in 0..5 :
              (/\ OnScript(k)
               /\ IF k % 2 = 0
                  THEN /\ last'.op = "handleExecute" /\ ~last'.force
                       /\ last'.arg = (k \div 2) + 1
                  ELSE last'.op = "handleConfirm")
              => (last'.success /\ OnScript(k + 1)') ]_vars

\* C4: after every change of a task status by /executar, /confirmar or
\* /erro, the progress_percentage stored for the todo of the task is
\* round(100 * completed / total) over the current statuses of its tasks.
C4_ProgressTracksSteps ==
    [][ \A i \in 1..Len(tasks) :
          (/\ last'.op \in {"handleExecute", "handleConfirm", "handleError"}
           /\ tasks'[i].status # tasks[i].status)
          => LET list == dbListTasks(tasks', tasks[i].todo_id)
             IN  todos'[tasks[i].todo_id].progress_percentage =
                    ProgressPercentage(CompletedSteps(list), Cardinality(list)) ]_vars

\* C5: in every reachable state a todo is completed with progress 100 if
\* and only if all of its tasks are completed.
C5_CompletedIffAllSteps ==
    \A t \in 1..Len(todos) :
        (todos[t].status = "completed" /\ todos[t].progress_percentage = 100)
        <=> (\A x \in dbListTasks(tasks, t) : x.status = "completed")

\* C6: after /criar on an empty store, /executar 1 succeeds and leaves the
\* todo in_progress.
C6_FirstExecuteStartsTodo ==
    [][ (/\ last.op = "handleCreate" /\ Len(todos) = 1
         /\ last'.op = "handleExecute" /\ last'.arg = 1)
        => (last'.success /\ todos'[1].status = "in_progress") ]_vars

---------------------------------------------------------------------------
(* The orchestrator: claims C11, C12, C13 *)

\* C11: a run over N selected evaluators returns exactly N responses, one
\* per evaluator, whichever of them threw (all of them included), and the
\* entry of an evaluator that threw carries its id, confidence 0.1 and a
\* manual-review suggestion.
C11_OneResponsePerEvaluator ==
    run.pc = "done" =>
        /\ Len(run.responses) = Len(run.selected)
        /\ {run.responses[i].agent : i \in 1..Len(run.responses)}
              = Range(run.selected)
        /\ \A i \in 1..Len(run.responses) :
              LET r == run.responses[i]
              IN  run.settled[r.agent].outcome = "threw" =>
                    /\ r.confidence = ErrorConfidence
                    /\ "Revisar manualmente" \in r.suggestions

\* C11 witness: a run over all six evaluators has returned although every
\* one of them threw
C11_Witness ==
    /\ run.pc = "done" /\ run.mode = "all" /\ Len(run.responses) = 6
    /\ \A a \in Range(Registry) : run.settled[a].outcome = "threw"

\* C12: the responses of the concurrent run are in the insertion order of
\* the registry, in whatever order the evaluators returned or threw.
C12_ResponsesInRegistryOrder ==
    (run.pc = "done" /\ run.mode = "all") =>
        /\ Len(run.responses) = Len(Registry)
        /\ \A i \in 1..Len(Registry) : run.responses[i].agent = Registry[i]

\* C12 witness: the concurrent run has returned, the evaluator registered
\* last having finished first, and some evaluator having thrown
C12_Witness ==
    /\ run.pc = "done" /\ run.mode = "all"
    /\ run.firstSettled = Registry[Len(Registry)]
    /\ \E a \in Range(Registry) : run.settled[a].outcome = "threw"

\* C13: in both runs, whenever the orchestrator is suspended at an await,
\* the analyze of every selected evaluator has been started.
C13_AllStartedBeforeWaiting ==
    run.pc = "waiting" => Range(run.selected) \subseteq Range(run.started)

---------------------------------------------------------------------------
(* Concurrent saves: claim C14 *)

\* C14: when saveContext calls interleave at their store operations
\* (deactivate all, insert active), no reachable store state has two active
\* contexts for one project, whatever stage the calls are at.
C14_InterleavedSavesOneActive ==
    \A p \in Projects :
        \A x, y \in ActiveRows(context_stack, p) :
            x.id = y.id

---------------------------------------------------------------------------
(* The life of a task: claims C15, C16, C17 *)

\* the task of the project's active todo with this number, NoTask if the
\* project has no active todo or the todo has no such task
StepOfActiveTodo(tbl, p, n) ==
    LET found == {t \in dbListTasks(tbl, dbGetActiveTodo(p)) :
                    t.sequence_number = n}
    IN  IF dbGetActiveTodo(p) = 0 \/ found = {} THEN NoTask
        ELSE CHOOSE t \in found : TRUE

\* C15: /executar n with force on an existing task n of the active todo
\* succeeds and leaves that task in_progress, whatever the state of its
\* dependencies.
C15_ForcedStartSucceeds ==
    [][ \A n \in TaskNumbers :
          (/\ last'.op = "handleExecute" /\ last'.arg = n
           /\ StepOfActiveTodo(tasks, DEFAULT_PROJECT_ID, n).id # 0
           /\ handleExecute(DEFAULT_PROJECT_ID, n, TRUE))
          => /\ last'.success
             /\ tasks'[StepOfActiveTodo(tasks, DEFAULT_PROJECT_ID, n).id].status
                  = "in_progress" ]_vars

\* a forced /executar has just started a task whose dependencies are not
\* all completed
C15_Witness ==
    /\ last.op = "handleExecute" /\ last.success /\ last.force
    /\ LET t == StepOfActiveTodo(tasks, last.project, last.arg)
       IN  /\ t.status = "in_progress"
           /\ checkTaskDependencies(tasks, t) # {}

\* C16: completed is terminal for a task: no command (/executar,
\* /confirmar, /erro, /continuar) changes the status of a completed task.
C16_CompletedIsTerminal ==
    [][ \A i \in 1..Len(tasks) :
          tasks[i].status = "completed" => tasks'[i].status = "completed" ]_vars

\* C17: a task becomes failed only from in_progress: /erro never marks a
\* pending or a completed task failed.
C17_FailedOnlyFromInProgress ==
    [][ \A i \in 1..Len(tasks) :
          (tasks[i].status # "failed" /\ tasks'[i].status = "failed")
          => tasks[i].status = "in_progress" ]_vars

---------------------------------------------------------------------------
(* Refusals: claims C18, C19 *)

\* the task a /confirmar of the project looks at: the one the active
\* context (as getActiveContext returns it) points at
ConfirmTarget(p) == dbGetTask(tasks, activeContextOf(p).context.task_id)

\* C18: when /executar refuses for pending dependencies, or /confirmar
\* refuses because the task is not in progress, the result is a failure
\* that names the unmet condition (the pending dependencies, the current
\* status), and no task, todo or context of the store is modified.
C18_RefusalChangesNothing ==
    [][ /\ (last'.op = "handleExecute" /\ last'.message = "pending dependencies")
           => /\ ~last'.success
              /\ last'.pending # {}
              /\ last'.pending =
                   checkTaskDependencies(tasks,
                       StepOfActiveTodo(tasks, last'.project, last'.arg))
              /\ tasks' = tasks /\ todos' = todos
              /\ context_stack' = context_stack
        /\ (last'.op = "handleConfirm" /\ last'.message = "task not in progress")
           => /\ ~last'.success
              /\ last'.status # "in_progress"
              /\ last'.status = ConfirmTarget(last'.project).status
              /\ tasks' = tasks /\ todos' = todos
              /\ context_stack' = context_stack ]_vars

\* a /confirmar has just been refused for a task that exists and is not
\* in progress
C18_Witness ==
    /\ last.op = "handleConfirm" /\ ~last.success
    /\ last.message = "task not in progress"
    /\ last.status \in {"pending", "completed", "failed"}

\* C19: a /confirmar or an /erro issued when the task it is about is
\* missing (no active context, no task in the context, or no such task in
\* the store) reports a failure, and modifies no task.
C19_MissingTargetIsFailure ==
    [][ (/\ last'.op \in {"handleConfirm", "handleError"}
         /\ ConfirmTarget(last'.project).id = 0)
        => (~last'.success /\ tasks' = tasks) ]_vars

---------------------------------------------------------------------------
(* Store failures: claim C20 *)

\* C20: a store failure during /criar, /executar, /confirmar or /erro
\* reaches the caller as a thrown failure: it is never turned into a
\* returned result.
C20_StoreFailureIsThrown ==
    (/\ last.op \in DOMAIN StoreFailureMessages
     /\ last.message = StoreFailureMessages[last.op])
    => last.thrown

---------------------------------------------------------------------------
(* Task generation: claim C21 *)

---------------------------------------------------------------------------
(* Error reports and checkpoints: claims C22, C23 *)

\* the current task of the project: the one its active context in the
\* store points at (NoTask when there is none)
CurrentStep(p) == dbGetTask(tasks, dbGetActiveContext(p).task_id)

\* C22: an /erro on the current task adds 1 to its error_count, appends
\* one entry to its corrections after the earlier ones and sets it failed;
\* an /executar of a failed task puts it back in_progress.
C22_ErrorReportThenRetry ==
    [][ /\ (last'.op = "handleError" /\ CurrentStep(last'.project).id # 0)
           => LET cur == CurrentStep(last'.project)
              IN  /\ tasks'[cur.id].error_count = cur.error_count + 1
                  /\ Len(tasks'[cur.id].corrections_applied)
                       = Len(cur.corrections_applied) + 1
                  /\ SubSeq(tasks'[cur.id].corrections_applied, 1,
                            Len(cur.corrections_applied))
                       = cur.corrections_applied
                  /\ tasks'[cur.id].status = "failed"
        /\ \A n \in TaskNumbers :
             (/\ last'.op = "handleExecute" /\ last'.arg = n /\ last'.success
              /\ StepOfActiveTodo(tasks, last'.project, n).status = "failed")
             => tasks'[StepOfActiveTodo(tasks, last'.project, n).id].status
                  = "in_progress" ]_vars

\* C23: every checkpoint saves a new active context: a /criar, an
\* /executar that starts a task, a /confirmar and an /erro that succeed
\* each insert a context row that is active afterwards.
C23_CheckpointSavesContext ==
    [][ (/\ last'.op \in {"handleCreate", "handleExecute",
                          "handleConfirm", "handleError"}
         /\ last'.success)
        => /\ nextContextId' = nextContextId + 1
           /\ dbGetContext(context_stack', nextContextId).is_active ]_vars

---------------------------------------------------------------------------
(* Recommendations: claim C24 *)

\* C24: whatever the suggestion lists of the responses, the
\* recommendations have at most 10 entries and no string twice.
C24_RecommendationsBoundedDistinct ==
    (calc.fn = "generateRecommendations" /\ calc.pc = "returned")
    => /\ Len(calc.recommendations) <= 10
       /\ \A i, j \in 1..Len(calc.recommendations) :
            calc.recommendations[i] = calc.recommendations[j] => i = j

\* the responses held twelve different suggestions, one of them twice,
\* and ten recommendations came back
C24_Witness ==
    /\ calc.fn = "generateRecommendations" /\ calc.pc = "returned"
    /\ Cardinality({Flatten(calc.suggestions)[i]
                      : i \in 1..Len(Flatten(calc.suggestions))}) = 12
    /\ Len(Flatten(calc.suggestions)) > 12
    /\ Len(calc.recommendations) = 10

---------------------------------------------------------------------------
(* Confidence: claims C25, C26 *)

\* C25: for every factor tuple in [1,5]^4 calculateConfidence returns a
\* value in [0.10, 1.00].
C25_ConfidenceInRange ==
    (calc.fn = "calculateConfidence" /\ calc.pc = "returned")
    => (10 <= calc.confidence /\ calc.confidence <= 100)

\* the lowest base with the highest penalties came back as 0.10, or the
\* highest base with no penalty as 1.00
C25_Witness ==
    /\ calc.fn = "calculateConfidence" /\ calc.pc = "returned"
    /\ \/ /\ calc.factors = [complexity |-> 5, familiarity |-> 1,
                             riskLevel |-> 5, dataQuality |-> 1]
          /\ calc.confidence = 10
       \/ /\ calc.factors = [complexity |-> 1, familiarity |-> 5,
                             riskLevel |-> 1, dataQuality |-> 5]
          /\ calc.confidence = 100

\* C26: with the other three factors fixed, the confidence does not rise
\* when complexity or riskLevel rises, and does not fall when familiarity
\* or dataQuality rises.
C26_ConfidenceMonotone ==
    (calc.fn = "calculateConfidence" /\ calc.pc = "returned")
    => LET f == calc.factors
       IN  \A v \in FactorRange :
             /\ v >= f.complexity =>
                  calculateConfidence(v, f.familiarity, f.riskLevel,
                                      f.dataQuality) <= calc.confidence
             /\ v >= f.riskLevel =>
                  calculateConfidence(f.complexity, f.familiarity, v,
                                      f.dataQuality) <= calc.confidence
             /\ v >= f.familiarity =>
                  calculateConfidence(f.complexity, v, f.riskLevel,
                                      f.dataQuality) >= calc.confidence
             /\ v >= f.dataQuality =>
                  calculateConfidence(f.complexity, f.familiarity,
                                      f.riskLevel, v) >= calc.confidence

\* a returned confidence that is strictly above the one of the next
\* riskLevel and strictly below the one of the next familiarity
C26_Witness ==
    /\ calc.fn = "calculateConfidence" /\ calc.pc = "returned"
    /\ calc.factors.riskLevel < 5 /\ calc.factors.familiarity < 5
    /\ calculateConfidence(calc.factors.complexity, calc.factors.familiarity,
           calc.factors.riskLevel + 1, calc.factors.dataQuality)
         < calc.confidence
    /\ calculateConfidence(calc.factors.complexity,
           calc.factors.familiarity + 1, calc.factors.riskLevel,
           calc.factors.dataQuality)
         > calc.confidence

---------------------------------------------------------------------------
(* The evaluators: claim C27 *)

\* the texts that recommend a manual review ("Recomendo revisão manual",
\* "Recomendo análise manual", "Recomendo validação manual")
RecommendsManualReview(text) ==
    text \in {ErrorTexts[a] : a \in DOMAIN ErrorTexts}

---------------------------------------------------------------------------
(* The orchestrator: claim C28 *)

\* C28: an analysis with selected evaluators ends in a failure exactly
\* when the selection is empty: an empty selection is reported as a
\* failure and returns no analysis, a non-empty one returns an analysis.
C28_EmptySelectionFails ==
    (run.mode = "specific" /\ run.pc \in {"done", "failed"})
    => (run.pc = "failed" <=> run.selected = <<>>)

---------------------------------------------------------------------------
(* Retention and update of the current context: claims C29, C30 *)

\* C29: the retention sweep deletes no context that is active, none of
\* another project and no inactive context saved at or after the cutoff.
C29_SweepDeletesOnlyOldInactive ==
    [][ \A p \in Projects, cutoff \in 1..(MaxContexts + 1) :
          (/\ last'.op = "clearInactiveContexts" /\ last'.project = p
           /\ clearInactiveContexts(p, cutoff))
          => \A c \in context_stack \ context_stack' :
                /\ ~c.is_active
                /\ c.project_id = p
                /\ c.saved_at < cutoff ]_vars

\* a sweep has just deleted a context of a project and left it an
\* inactive context (saved at or after the cutoff) and its active one
C29_Witness ==
    /\ last.op = "clearInactiveContexts" /\ last.arg >= 1
    /\ \E c \in context_stack : c.project_id = last.project /\ c.is_active
    /\ \E c \in context_stack : c.project_id = last.project /\ ~c.is_active

\* C30: updateCurrentContext writes nothing and returns none when the
\* project has no active context in the store; otherwise it applies the
\* update to the context that is active in the store, leaves every other
\* context as it was, and a getActiveContext issued next returns the
\* updated values.
C30_UpdateHitsStoreActive ==
    [][ \A p \in Projects, n \in Notes :
          (last'.op = "updateCurrentContext" /\ last'.project = p
             /\ last'.arg = n)
          => LET act == dbGetActiveContext(p)
             IN  IF act.id = 0
                 THEN /\ context_stack' = context_stack
                      /\ ~last'.success
                      /\ last'.context = NoContext
                 ELSE /\ context_stack' =
                           dbUpdateContext(context_stack, act.id, [notes |-> n])
                      /\ last'.context = [act EXCEPT !.notes = n]
                      /\ activeContextOf(p)'.context
                           = [act EXCEPT !.notes = n] ]_vars

---------------------------------------------------------------------------
(* The consensus: claim C31 *)

\* C31: for the response formatResponse builds from any body, the entry
\* generateConsensus stores under the evaluator's key is exactly the body.
C31_ConsensusIsBody ==
    (calc.fn = "generateConsensus" /\ calc.pc = "returned")
    => calc.clean = calc.body

---------------------------------------------------------------------------
(* Store failures of the context stack: claims C32, C38 *)

\* C32: a failed read of the active context is propagated to the caller,
\* and an operation whose lookup failed writes nothing: in particular a
\* pushContext does not persist a context of depth 0 without parent.
C32_LookupFailurePropagates ==
    [][ last'.message = "lookup failed"
        => /\ last'.thrown
           /\ context_stack' = context_stack ]_vars

\* C38: a saveContext whose deactivating update failed fails, and the store
\* holds no row it did not hold before.
C38_DeactivateFailureStopsSave ==
    [][ last'.message = "deactivate failed"
        => /\ ~last'.success
           /\ \A c \in context_stack' : c \in context_stack ]_vars

---------------------------------------------------------------------------
(* Parent and depth of a pushed context: claim C33 *)

\* C33: the context a pushContext saves has as parent_context_id the id of
\* the context active in the store when the call was made and as
\* stack_depth that context's depth plus one; with no active context it has
\* no parent and depth 0.
C33_PushRecordsStoreParent ==
    [][ \A p \in Projects :
          (last'.op = "pushContext" /\ last'.project = p)
          => LET act == dbGetActiveContext(p)
             IN  /\ last'.context \in context_stack'
                 /\ last'.context.parent_context_id = act.id
                 /\ last'.context.stack_depth =
                      IF act.id # 0 THEN act.stack_depth + 1 ELSE 0 ]_vars

---------------------------------------------------------------------------
(* Ranking of the recommendations: claim C34 *)

\* the position of the first occurrence of x in list
FirstOccurrence(list, x) ==
    FirstIndex({i \in 1..Len(list) : list[i] = x})

\* x ranks before y among the suggestions of list: x has an urgency keyword
\* and y has none, or they are of the same group and x occurs first
RanksBefore(list, x, y) ==
    \/ HasPriorityKeyword(x) /\ ~HasPriorityKeyword(y)
    \/ /\ HasPriorityKeyword(x) = HasPriorityKeyword(y)
       /\ FirstOccurrence(list, x) < FirstOccurrence(list, y)

\* C34: the recommendations are suggestions of the responses; each ranks
\* before the ones after it (urgency keyword first, then order of first
\* occurrence in the union of the lists); a suggestion is left out only
\* when ten others, all ranking before it, are returned.
C34_RecommendationsRanked ==
    (calc.fn = "generateRecommendations" /\ calc.pc = "returned")
    => LET all == Flatten(calc.suggestions)
           rec == calc.recommendations
           given == {all[i] : i \in 1..Len(all)}
           kept == {rec[i] : i \in 1..Len(rec)}
       IN  /\ kept \subseteq given
           /\ \A i, j \in 1..Len(rec) :
                i < j => RanksBefore(all, rec[i], rec[j])
           /\ \A x \in given \ kept :
                /\ Len(rec) = RecommendationLimit
                /\ \A i \in 1..Len(rec) : RanksBefore(all, rec[i], x)

\* a suggestion with an urgency keyword that was given after one without
\* came back first, and a suggestion given early was left out because ten
\* others rank before it
C34_Witness ==
    /\ calc.fn = "generateRecommendations" /\ calc.pc = "returned"
    /\ LET all == Flatten(calc.suggestions)
           rec == calc.recommendations
       IN  /\ Len(rec) = RecommendationLimit
           /\ HasPriorityKeyword(rec[1]) /\ ~HasPriorityKeyword(all[1])
           /\ HasPriorityKeyword(rec[3]) /\ ~HasPriorityKeyword(rec[4])
           /\ \E i \in 1..Len(all) :
                /\ \A k \in 1..Len(rec) : rec[k] # all[i]
                /\ \E j \in 1..Len(all) :
                     i < j /\ \E k \in 1..Len(rec) : rec[k] = all[j]

---------------------------------------------------------------------------
(* Confirming the started task: claims C35, C36 *)

\* C35: a /confirmar issued right after a successful /executar k succeeds
\* and marks task k of the active todo, the task just started, completed.
C35_ConfirmCompletesStarted ==
    [][ \A p \in Projects :
          (/\ last.op = "handleExecute" /\ last.success /\ last.project = p
           /\ last'.op = "handleConfirm" /\ last'.project = p)
          => LET k == StepOfActiveTodo(tasks, p, last.arg)
             IN  /\ last'.success
                 /\ last'.arg = k.id
                 /\ tasks'[k.id].status = "completed" ]_vars

\* the tasks of a todo that are in progress
InProgress(tbl, todoId) ==
    {t \in dbListTasks(tbl, todoId) : t.status = "in_progress"}

\* C36: while /executar is never given the force flag, no todo has more
\* than one task in progress.
C36_OneStepInProgress ==
    \A id \in 1..Len(todos) : Cardinality(InProgress(tasks, id)) <= 1

---------------------------------------------------------------------------
(* A pop that returns no context: claim C37 *)

\* C37: a popContext that returns no context leaves the store as it was,
\* so the project's active context stays active.
C37_FailedPopWritesNothing ==
    [][ (last'.op = "popContext" /\ last'.context.id = 0)
        => context_stack' = context_stack ]_vars

---------------------------------------------------------------------------
(* A /criar that fails part-way: claim C39 *)

\* C39: a /criar that reports failure has left no todo and no task in the
\* store.
C39_FailedCreateLeavesNothing ==
    [][ (last'.op = "handleCreate" /\ ~last'.success)
        => (todos' = todos /\ tasks' = tasks) ]_vars

---------------------------------------------------------------------------
(* The alignment check: claim C40 *)

\* C40: checkAlignment gives the same answer with its two texts exchanged.
C40_AlignmentSymmetric ==
    (calc.fn = "checkAlignment" /\ calc.pc = "returned")
    => calc.aligned = checkAlignment(calc.text2, calc.text1)

=============================================================================
